---- MODULE Spec2Model ----
(***************************************************************************)
(* The process-backed tool bridge of mcp-agent/src/mcp_server_adapter.py:  *)
(* MCPServerAdapter spawns a worker process, correlates JSON-RPC requests  *)
(* written to its stdin with response lines read from its stdout by a      *)
(* background thread, and tries four calling conventions per tool call.    *)
(*                                                                         *)
(* Callers are coroutines of one asyncio event loop: `cur` is the          *)
(* coroutine that occupies the loop thread (0 when the loop is free), and  *)
(* a coroutine gives the loop up only at an await.  The stdout pumps are   *)
(* real threads and interleave with the loop thread at every step.         *)
(* self.lock is a threading.Lock: a coroutine that reaches `with           *)
(* self.lock` while another coroutine holds it blocks the loop thread.     *)
(***************************************************************************)
EXTENDS Integers, Sequences, FiniteSets, TLC

NumCallers == 2
MaxId == 2
MaxSpawn == 2
MaxIdSolo == 4
NumApproaches == 4
MaxAbCalls == 3
MaxAbLines == 3
MaxBrCalls == 3
MaxClCalls == 3
MaxPxLines == 2
MaxPxId == 2
PxTimeoutCode == -32001
PxErrorCode == -32000
AbRequestId == 1

Callers == 1..NumCallers
Ids == 1..MaxIdSolo
Procs == 1..MaxSpawn

Free == <<"free", 0>>
HeldByCo(c) == <<"co", c>>
HeldByPump(p) == <<"pump", p>>

VARIABLES
    msg,              \* msg[c]: the request client c sends to the agent, if any
    name,             \* self.name.lower(): "airbnb" or "other"
    HAS_MCP_CLIENT,   \* whether the mcp client library could be imported
    is_running,       \* self.is_running
    mcp_process,      \* self.mcp_process: 0 is None, else the process spawned last
    hasSession,       \* hasattr(self, 'mcp_client_session')
    nspawn,           \* number of processes created by subprocess.Popen so far
    alive,            \* alive[p]: process p has not exited (poll() is None)
    stdin,            \* stdin[p]: the request lines written to process p
    pumpPc,           \* pumpPc[p]: the _read_stdout thread of process p
    pumpLine,         \* pumpLine[p]: `response` of that thread while it completes a future
    lastWarning,      \* the warning a _read_stdout thread logged last for a dropped line
    request_futures,  \* keys of self.request_futures
    future,           \* future[i]: the asyncio future created for request id i
    next_request_id,  \* self.next_request_id
    tools_cache,      \* self.tools_cache: NoCatalog is None
    lock,             \* self.lock: Free, HeldByCo(c) or HeldByPump(p)
    cur,              \* the coroutine running on the event loop thread, 0 if none
    co,               \* co[c]: position and locals of caller c's handle_call_tool
    outcome,          \* outcome[i]: how _send_mcp_request ended for id i (its log line)
    errLog,           \* what a _read_stderr thread logged last
    abPc,             \* AirbnbMCPAdapter._call_mcp_tool: "idle" or "read" (in readline)
    abCall,           \* the number of _call_mcp_tool calls started so far
    abPending,        \* the calls whose request the worker has read and not answered
    abStdout,         \* the lines in the worker's stdout pipe that nobody has read
    abRet,            \* abRet[n]: how call n of _call_mcp_tool ended
    abAlive,          \* whether the worker of AirbnbMCPAdapter is running
    pending_futures,  \* UAgentBridgeClient.pending_futures: the request ids registered
    brFuture,         \* brFuture[i]: the future of the call with request id i
    outgoing_queue,   \* UAgentBridgeClient._outgoing_queue: the requests not sent yet
    brSent,           \* the requests the target agent has received and not answered
    brInbox,          \* the request ids of the MCPResponse messages on their way to the bridge
    brPc,             \* brPc[i]: where call_tool of request i is
    brResp,           \* brResp[i]: the request id of the response call i returned, 0 if none
    brWarned,         \* the request ids handle_response found no pending future for
    brInvalid,        \* the request ids whose future set_result was applied to when done
    pxPc,             \* mcp_proxy.main: "read" in the loop, "done" after the break
    pxIn,             \* the lines of stdin that main has not read yet
    pxSeen,           \* the lines main has read and dealt with
    pxOut,            \* the lines main has written to stdout
    pxHow,            \* how main dealt with the line it read last
    clRequestFutures, \* MCPUAgentClient.request_futures: the request ids registered
    clFuture,         \* clFuture[i]: the future of call i of MCPUAgentClient.call_tool
    clPc,             \* clPc[i]: where call i of call_tool is
    clSent,           \* the calls whose request the target agent has and has not answered
    clInbox,          \* the MCPResponse messages on their way to the client
    clRet,            \* clRet[i]: what call i returned, if it returned
    clWarned          \* the request ids handle_mcp_response found no future for

procVars == <<is_running, mcp_process, hasSession, nspawn, alive, pumpPc>>
reqVars == <<request_futures, future, next_request_id, stdin, outcome, tools_cache>>
cfgVars == <<msg, name, HAS_MCP_CLIENT>>
\* The state of MCPServerAdapter, its worker and its clients.
adapterVars ==
    <<msg, tools_cache, name, HAS_MCP_CLIENT, is_running, mcp_process, hasSession, nspawn, alive,
      stdin, pumpPc, pumpLine, lastWarning, request_futures, future, next_request_id,
      lock, cur, co, outcome, errLog>>

\* The state of AirbnbMCPAdapter and its worker.
abVars == <<abPc, abCall, abPending, abStdout, abRet, abAlive>>

\* The state of UAgentBridgeClient, the target agent and the messages between them.
brVars == <<pending_futures, brFuture, outgoing_queue, brSent, brInbox, brPc, brResp,
            brWarned, brInvalid>>

\* The state of mcp_proxy.main and its standard streams.
pxVars == <<pxPc, pxIn, pxSeen, pxOut, pxHow>>

\* The state of MCPUAgentClient, its target agent and the messages between them.
clVars == <<clRequestFutures, clFuture, clPc, clSent, clInbox, clRet, clWarned>>

\* The state of the components other than MCPServerAdapter.
extVars == <<abVars, brVars, pxVars, clVars>>

\* What the steps of one component leave alone.
abOthers == <<adapterVars, brVars, pxVars, clVars>>
brOthers == <<adapterVars, abVars, pxVars, clVars>>
pxOthers == <<adapterVars, abVars, brVars, clVars>>
clOthers == <<adapterVars, abVars, brVars, pxVars>>

vars == <<adapterVars, extVars>>

NoResult == [kind |-> "none", val |-> 0, ty |-> "none"]
NoCatalog == [src |-> 0, q |-> "none"]
NoMsg == [kind |-> "none", tool |-> ""]
NewFuture == [st |-> "pending", val |-> 0]
NoFuture == [st |-> "none", val |-> 0]
NoLine == [kind |-> "none", id |-> 0, val |-> 0]
NoWarning == [kind |-> "none", id |-> 0]
NoErrLog == [kind |-> "none", id |-> 0, level |-> "none"]

InitCo == [pc |-> "idle", ctx |-> "h", k |-> 0, reqId |-> 0, got |-> "none",
           result |-> NoResult, tool |-> "", tools |-> NoCatalog]

AbCalls == 1..MaxAbCalls

\* No call of _call_mcp_tool has ended yet.
AbNoRet == [kind |-> "none", of |-> 0]

\* AirbnbMCPAdapter before any request: no worker, nothing written or read.
InitAb ==
    /\ abPc = "idle"
    /\ abCall = 0
    /\ abPending = {}
    /\ abStdout = <<>>
    /\ abRet = [n \in AbCalls |-> AbNoRet]
    /\ abAlive = FALSE

BrCalls == 1..MaxBrCalls

\* The request_id of a response that answers no request of this bridge.
BrUnknownId == 0

\* UAgentBridgeClient after __init__: nothing pending, nothing queued.
InitBr ==
    /\ pending_futures = {}
    /\ brFuture = [i \in BrCalls |-> NoFuture]
    /\ outgoing_queue = {}
    /\ brSent = {}
    /\ brInbox = {}
    /\ brPc = [i \in BrCalls |-> "new"]
    /\ brResp = [i \in BrCalls |-> 0]
    /\ brWarned = {}
    /\ brInvalid = {}

\* mcp_proxy.main at the top of its loop, with the lines on its stdin.
InitPx(input) ==
    /\ pxPc = "read"
    /\ pxIn = input
    /\ pxSeen = <<>>
    /\ pxOut = <<>>
    /\ pxHow = "none"

ClCalls == 1..MaxClCalls

\* No call of MCPUAgentClient.call_tool has returned anything yet.
ClNoRet == [kind |-> "none", of |-> 0]

\* MCPUAgentClient after __init__: no request registered, nothing sent.
InitCl ==
    /\ clRequestFutures = {}
    /\ clFuture = [i \in ClCalls |-> NoFuture]
    /\ clPc = [i \in ClCalls |-> "new"]
    /\ clSent = {}
    /\ clInbox = {}
    /\ clRet = [i \in ClCalls |-> ClNoRet]
    /\ clWarned = {}

\* The components other than MCPServerAdapter, before they are used.
InitExt ==
    /\ InitAb
    /\ InitBr
    /\ InitPx(<<>>)
    /\ InitCl

\* The state after __init__ (lines 120-127) for a given adapter and given
\* requests of the clients.
InitServerAdapter ==
    /\ name \in {"airbnb", "other"}
    \* the flag is read only together with name = "airbnb" (lines 329, 756)
    /\ HAS_MCP_CLIENT \in {b \in BOOLEAN : b => name = "airbnb"}
    /\ is_running = FALSE
    /\ mcp_process = 0
    /\ hasSession = FALSE
    /\ nspawn = 0
    /\ alive = [p \in Procs |-> FALSE]
    /\ stdin = [p \in Procs |-> <<>>]
    /\ pumpPc = [p \in Procs |-> "off"]
    /\ pumpLine = [p \in Procs |-> NoLine]
    /\ lastWarning = NoWarning
    /\ request_futures = {}
    /\ future = [i \in Ids |-> NoFuture]
    /\ next_request_id = 1
    /\ lock = Free
    /\ cur = 0
    /\ co = [c \in Callers |-> InitCo]
    /\ outcome = [i \in Ids |-> "none"]
    /\ tools_cache = NoCatalog
    /\ errLog = NoErrLog

\* The adapter after construction, the other components unused.
InitAdapter ==
    /\ InitServerAdapter
    /\ InitExt

\* Two clients, each sending one MCPCallToolRequest for airbnb_search.
Init ==
    /\ msg = [c \in Callers |-> [kind |-> "call", tool |-> "airbnb_search"]]
    /\ InitAdapter

(***************************************************************************)
(* _call_mcp_tool and _get_mcp_tools: the approaches loop, the catalog     *)
(* cache and what follows them.                                            *)
(***************************************************************************)

\* The number of requests a run may issue: a run with one client goes through
\* all calling conventions, a run with two clients issues fewer requests.
IdBound ==
    IF Cardinality({c \in Callers : msg[c].kind # "none"}) = 1 THEN MaxIdSolo ELSE MaxId

\* A coroutine at one of these positions is suspended in an await (or is not
\* running at all), so the event loop is free for another coroutine.
Suspended(r) == r.pc \in {"idle", "sleep", "connect", "wait", "libcall", "done"}

\* Lines 874, 909: the tool names the airbnb adapter has a mock response for.
MockTools == {"airbnb_search", "airbnb_listing_details"}

\* Lines 870-948: after the loop (or after goto_mock_responses) the airbnb
\* adapter returns a mock response for the two tools it knows and the text
\* "Unknown tool: <name>" for any other name; any other adapter raises "All
\* approaches failed", which names the tool and the adapter only.
\* handle_call_tool sends what is returned as content and what is raised as
\* error of the MCPCallToolResponse.
Fallback(r) ==
    [r EXCEPT !.pc = "done",
              !.result = IF name = "airbnb"
                         THEN IF r.tool \in MockTools
                              THEN [kind |-> "placeholder", val |-> 0, ty |-> "str"]
                              ELSE [kind |-> "unknown_tool", val |-> 0, ty |-> "str"]
                         ELSE [kind |-> "all_failed", val |-> 0, ty |-> "error"]]

\* Variant: the except branch of the loop re-raises a worker error, which
\* handle_call_tool sends as the error of the response.
NextApproachStopOnError(r, why) ==
    IF why = "fail"
    THEN [r EXCEPT !.pc = "done", !.got = why,
                   !.result = [kind |-> "worker_error", val |-> r.reqId, ty |-> "error"]]
    ELSE IF r.k < NumApproaches
    THEN [r EXCEPT !.k = r.k + 1, !.pc = "ensure", !.ctx = "s", !.got = why]
    ELSE Fallback([r EXCEPT !.got = why])

\* Variant: the loop tries the same approach again instead of the next one.
NextApproachSame(r, why) ==
    [r EXCEPT !.pc = "ensure", !.ctx = "s", !.got = why]

\* Variant: the loop is left after the first failed approach.
NextApproachGiveUp(r, why) == Fallback([r EXCEPT !.got = why])

\* Lines 845, 863-868: the except branch of the loop body logs the error and
\* continues with the next approach; after the last one the loop ends.
NextApproach(r, why) ==
    IF r.k < NumApproaches
    THEN [r EXCEPT !.k = r.k + 1, !.pc = "ensure", !.ctx = "s", !.got = why]
    ELSE Fallback([r EXCEPT !.got = why])

\* The JSON types a worker's result payload may have.
PayloadTypes == {"dict", "list", "str", "other"}

\* Lines 855-861: a dict or list goes through json.dumps, a str is returned
\* as it is, anything else through str(); each gives a Python str.
Normalize(ty) ==
    CASE ty \in {"dict", "list"} -> "str"
      [] ty = "str" -> "str"
      [] OTHER -> "str"

\* Variant: the loop body has no return, the result is kept and the next
\* approach is tried.
ReturnContinue(r, v, ty) ==
    IF r.k < NumApproaches
    THEN [r EXCEPT !.k = r.k + 1, !.pc = "ensure", !.ctx = "s",
                   !.result = [kind |-> "success", val |-> v, ty |-> Normalize(ty)]]
    ELSE [r EXCEPT !.pc = "done",
                   !.result = [kind |-> "success", val |-> v, ty |-> Normalize(ty)]]

\* Lines 851-861: the first approach whose request returns leaves the loop and
\* the function with the converted result.
ReturnResult(r, v, ty) ==
    [r EXCEPT !.pc = "done",
              !.result = [kind |-> "success", val |-> v, ty |-> Normalize(ty)]]

\* Lines 752-816: the library path is taken when the adapter is the airbnb one,
\* the client library is present and mcp_client_session was ever assigned;
\* otherwise the approaches loop starts with the first convention.
BeginCall(r, session) ==
    IF name = "airbnb" /\ HAS_MCP_CLIENT /\ session
    THEN [r EXCEPT !.pc = "ensure", !.ctx = "l"]
    ELSE [r EXCEPT !.pc = "ensure", !.ctx = "s", !.k = 1]

\* Lines 539-645: the hardcoded catalog of the airbnb adapter.
Hardcoded == [src |-> 0, q |-> "hardcoded"]

\* Lines 145-156, 669-671: the empty list sent when discovery fails.
EmptyCatalog == [src |-> 0, q |-> "empty"]

\* handle_list_tools sends the catalog `t` (lines 147-150).
ListDone(r, t, why) ==
    [r EXCEPT !.pc = "done", !.got = why, !.tools = t,
              !.result = [kind |-> "tools", val |-> t.src, ty |-> "list"]]

\* Lines 669-671: _get_mcp_tools catches whatever the discovery raised and
\* returns an empty list.
ListFailed(r, why) == ListDone(r, EmptyCatalog, why)

\* What the caller of _send_mcp_request does when it raises: the approaches
\* loop goes on (lines 863-865), _get_mcp_tools returns [] (lines 669-671).
Raised(r, why) == IF r.ctx = "d" THEN ListFailed(r, why) ELSE NextApproach(r, why)

\* The shapes a worker's answer to listTools may have: a list whose items all
\* make an MCPTool, a list with an item that does not, or no iterable at all.
Shapes == {"good", "baddesc", "notiter"}

\* Lines 652-668: every item of the result is turned into an MCPTool; an item
\* that raises is logged and left out (lines 662-663), and the list of the
\* remaining tools is the catalog. A result that cannot be iterated raises
\* out of the loop (NoCatalog stands for that).
ParseTools(id, shape) ==
    CASE shape = "good" -> [src |-> id, q |-> "full"]
      [] shape = "baddesc" -> [src |-> id, q |-> "partial"]
      [] OTHER -> NoCatalog

\* Variant: the cache is not consulted.
CacheMiss == FALSE

\* Lines 536-537: the cache is used whenever it is not None.
CacheHit == tools_cache # NoCatalog

\* Variant: the id counter is not advanced.
NextIdSame(id) == id

\* Line 488: self.next_request_id += 1.
NextId(id) == id + 1

\* Variant: the id and its future are registered, but the request line is
\* left to be written after the coroutine has given up the event loop.
IssueWriteDeferred(c) ==
    LET id == next_request_id
        r == co[c] IN
    /\ id <= IdBound
    /\ next_request_id' = NextId(id)
    /\ future' = [future EXCEPT ![id] = NewFuture]
    /\ request_futures' = request_futures \cup {id}
    /\ co' = [co EXCEPT ![c] = [r EXCEPT !.pc = "wait", !.reqId = id]]
    /\ cur' = 0
    /\ UNCHANGED <<tools_cache, stdin, outcome>>

\* Lines 485-516 of _send_mcp_request, run without an await: the id and its
\* future are registered under the lock, the request line is written to
\* self.mcp_process.stdin; a failed write removes the entry again and raises.
IssueWrite(c) ==
    LET id == next_request_id
        r == co[c] IN
    /\ id <= IdBound
    /\ next_request_id' = NextId(id)
    /\ future' = [future EXCEPT ![id] = NewFuture]
    /\ UNCHANGED tools_cache
    /\ \E written \in BOOLEAN :
         IF written
         THEN /\ request_futures' = request_futures \cup {id}
              /\ stdin' = [stdin EXCEPT ![mcp_process'] =
                              Append(@, [id |-> id, caller |-> c, k |-> r.k])]
              /\ co' = [co EXCEPT ![c] = [r EXCEPT !.pc = "wait", !.reqId = id]]
              /\ cur' = 0
              /\ UNCHANGED outcome
         ELSE /\ request_futures' = request_futures \ {id}
              /\ outcome' = [outcome EXCEPT ![id] = "writefail"]
              /\ co' = [co EXCEPT ![c] = Raised([r EXCEPT !.reqId = id], "writefail")]
              /\ cur' = IF Suspended(co'[c]) THEN 0 ELSE c
              /\ UNCHANGED stdin

\* _get_mcp_tools up to its first await (lines 536-650): a cached catalog is
\* returned; the airbnb adapter caches and returns its hardcoded catalog; any
\* other adapter goes on to send the listTools request.
BeginList(c) ==
    LET r == co[c] IN
    IF CacheHit
    THEN /\ co' = [co EXCEPT ![c] = ListDone(r, tools_cache, "cache")]
         /\ cur' = 0
         /\ UNCHANGED reqVars
    ELSE IF name = "airbnb"
    THEN /\ tools_cache' = Hardcoded
         /\ co' = [co EXCEPT ![c] = ListDone(r, Hardcoded, "hardcoded")]
         /\ cur' = 0
         /\ UNCHANGED <<request_futures, future, next_request_id, stdin, outcome>>
    ELSE /\ co' = [co EXCEPT ![c] = [r EXCEPT !.pc = "ensure", !.ctx = "d"]]
         /\ cur' = c
         /\ UNCHANGED reqVars

\* What the caller of _ensure_mcp_running does with its answer `ok`:
\* handle_call_tool (line 165) and handle_list_tools (line 141) discard it and
\* call _call_mcp_tool or _get_mcp_tools;
\* _send_mcp_request (lines 482-483) raises "MCP server not running" on False;
\* the library path (lines 761-765) raises on False and awaits call_tool on True.
AfterEnsure(c, ok) ==
    LET r == co[c] IN
    CASE r.ctx = "h" ->
            /\ co' = [co EXCEPT ![c] = BeginCall(r, hasSession')]
            /\ cur' = c
            /\ UNCHANGED reqVars
      [] r.ctx = "g" -> BeginList(c)
      [] r.ctx = "l" ->
            /\ co' = [co EXCEPT ![c] = IF ok THEN [r EXCEPT !.pc = "libcall"]
                                             ELSE Fallback([r EXCEPT !.got = "not_running"])]
            /\ cur' = 0
            /\ UNCHANGED reqVars
      [] r.ctx \in {"s", "d"} ->
            IF ok
            THEN IssueWrite(c)
            ELSE /\ co' = [co EXCEPT ![c] = Raised(r, "not_running")]
                 /\ cur' = IF Suspended(co'[c]) THEN 0 ELSE c
                 /\ UNCHANGED reqVars

\* handle_call_tool (lines 160-165) or handle_list_tools (lines 136-141): the
\* client's message arrives and its handler starts running on the event loop.
Start(c) ==
    /\ cur = 0
    /\ co[c].pc = "idle"
    /\ msg[c].kind # "none"
    /\ co' = [co EXCEPT ![c] = [@ EXCEPT !.pc = "ensure",
                                         !.ctx = IF msg[c].kind = "call" THEN "h" ELSE "g",
                                         !.tool = msg[c].tool]]
    /\ cur' = c
    /\ UNCHANGED <<procVars, reqVars, cfgVars, extVars, errLog, pumpLine, lastWarning, lock>>

(***************************************************************************)
(* _ensure_mcp_running                                                     *)
(***************************************************************************)

\* Variant: _ensure_mcp_running does not take the lock.
EnsureNoLock(c) == TRUE

\* Line 323: `with self.lock` is entered only when the lock is free.
EnsureLockFree(c) == lock = Free

\* Variant: no fast path, every call starts a worker.
EnsureFastNever == FALSE

\* Variant: is_running alone decides, poll() is not asked.
EnsureFastNoPoll == is_running /\ mcp_process # 0

\* Line 325: the worker counts as running only if poll() shows no exit.
EnsureFastOK == is_running /\ mcp_process # 0 /\ alive[mcp_process]

AtEnsure(c) == cur = c /\ co[c].pc = "ensure" /\ EnsureLockFree(c)

UseLibrary == name = "airbnb" /\ HAS_MCP_CLIENT

\* Lines 323-326: already running, return True at once.
EnsureFast(c) ==
    /\ AtEnsure(c)
    /\ EnsureFastOK
    /\ UNCHANGED <<procVars, cfgVars, extVars, errLog, pumpLine, lastWarning, lock>>
    /\ AfterEnsure(c, TRUE)

\* Lines 335-352: Popen creates the process, the stdout (and stderr) thread is
\* started, and the coroutine sleeps one second inside `with self.lock`.
EnsureSpawn(c) ==
    /\ AtEnsure(c)
    /\ ~EnsureFastOK
    /\ ~UseLibrary
    /\ nspawn < MaxSpawn
    /\ LET p == nspawn + 1 IN
         /\ nspawn' = p
         /\ mcp_process' = p
         /\ alive' = [alive EXCEPT ![p] = TRUE]
         /\ pumpPc' = [pumpPc EXCEPT ![p] = "idle"]
    /\ lock' = HeldByCo(c)
    /\ co' = [co EXCEPT ![c] = [@ EXCEPT !.pc = "sleep"]]
    /\ cur' = 0
    /\ UNCHANGED <<is_running, hasSession, reqVars, cfgVars, extVars, errLog, pumpLine, lastWarning>>

\* Lines 365-367: Popen raises; the error is logged and False returned.
EnsureSpawnFail(c) ==
    /\ AtEnsure(c)
    /\ ~EnsureFastOK
    /\ ~UseLibrary
    /\ UNCHANGED <<procVars, cfgVars, extVars, errLog, pumpLine, lastWarning, lock>>
    /\ AfterEnsure(c, FALSE)

\* Lines 354-363: after the sleep, poll(): an exited process gives False,
\* otherwise is_running is set and True returned; the lock is released.
EnsureWake(c) ==
    /\ cur = 0
    /\ co[c].pc = "sleep"
    /\ ~UseLibrary
    /\ is_running' = (is_running \/ alive[mcp_process])
    /\ lock' = Free
    /\ UNCHANGED <<mcp_process, hasSession, nspawn, alive, pumpPc, cfgVars, extVars, errLog, pumpLine, lastWarning>>
    /\ AfterEnsure(c, alive[mcp_process])

\* Lines 329-330 and 253-271 (_initialize_mcp_client): Popen, the stderr thread
\* only, and the one-second sleep, still inside `with self.lock`.
LibSpawn(c) ==
    /\ AtEnsure(c)
    /\ ~EnsureFastOK
    /\ UseLibrary
    /\ nspawn < MaxSpawn
    /\ LET p == nspawn + 1 IN
         /\ nspawn' = p
         /\ mcp_process' = p
         /\ alive' = [alive EXCEPT ![p] = TRUE]
    /\ lock' = HeldByCo(c)
    /\ co' = [co EXCEPT ![c] = [@ EXCEPT !.pc = "sleep"]]
    /\ cur' = 0
    /\ UNCHANGED <<is_running, hasSession, pumpPc, reqVars, cfgVars, extVars, errLog, pumpLine, lastWarning>>

\* Lines 311-319: Popen raises inside _initialize_mcp_client; the handler
\* calls terminate() on whatever self.mcp_process still refers to and returns
\* False. terminate() only sends SIGTERM and is not followed by wait(): the
\* process exits at some later step (WorkerExit).
LibSpawnFail(c) ==
    /\ AtEnsure(c)
    /\ ~EnsureFastOK
    /\ UseLibrary
    /\ UNCHANGED <<procVars, cfgVars, extVars, errLog, pumpLine, lastWarning, lock>>
    /\ AfterEnsure(c, FALSE)

\* Lines 273-276: poll() after the sleep; an exited process gives False,
\* otherwise the coroutine goes on to the awaits of the client library, still
\* inside `with self.lock`.
LibWake(c) ==
    /\ cur = 0
    /\ co[c].pc = "sleep"
    /\ UseLibrary
    /\ UNCHANGED <<procVars, cfgVars, extVars, errLog, pumpLine, lastWarning>>
    /\ IF alive[mcp_process]
       THEN /\ co' = [co EXCEPT ![c] = [@ EXCEPT !.pc = "connect"]]
            /\ UNCHANGED <<cur, lock, reqVars>>
       ELSE /\ lock' = Free
            /\ AfterEnsure(c, FALSE)

\* Lines 278-319: the client library connects. "early" fails before
\* mcp_client_session is assigned (line 298), "late" fails after it
\* (initialize or list_tools raises); both call terminate() on the process
\* (line 316) and return False. terminate() only sends SIGTERM and is not
\* followed by wait(): the process exits at some later step (WorkerExit).
\* "connected" sets is_running and returns True.
LibConnect(c) ==
    /\ cur = 0
    /\ co[c].pc = "connect"
    /\ lock' = Free
    /\ UNCHANGED <<mcp_process, nspawn, alive, pumpPc, cfgVars, extVars, errLog, pumpLine, lastWarning>>
    /\ \E how \in {"early", "late", "connected"} :
         /\ hasSession' = (hasSession \/ how # "early")
         /\ is_running' = (is_running \/ how = "connected")
         /\ AfterEnsure(c, how = "connected")

(***************************************************************************)
(* _send_mcp_request after the write, and the library call                 *)
(***************************************************************************)

\* Lines 521-524: the awaited future holds a result or an exception; wait_for
\* hands it to the coroutine.
Resume(c) ==
    /\ cur = 0
    /\ co[c].pc = "wait"
    /\ future[co[c].reqId].st \in {"result", "exception"}
    /\ co' = [co EXCEPT ![c] = [@ EXCEPT !.pc = "finally",
                 !.got = IF future[co[c].reqId].st = "result" THEN "resolve" ELSE "fail"]]
    /\ cur' = c
    /\ UNCHANGED <<procVars, reqVars, cfgVars, extVars, errLog, pumpLine, lastWarning, lock>>

\* Variant: the wait gives up without cancelling the future.
TimeoutNoCancel(f) == f

\* Line 521: asyncio.wait_for cancels the future it waited for when the
\* timeout passes.
TimeoutCancel(f) == [f EXCEPT !.st = "cancelled"]

\* Lines 521, 525-527: wait_for's 30 seconds pass with the future still
\* pending; wait_for cancels the future and raises TimeoutError.
Timeout(c) ==
    /\ cur = 0
    /\ co[c].pc = "wait"
    /\ future[co[c].reqId].st = "pending"
    /\ future' = [future EXCEPT ![co[c].reqId] = TimeoutCancel(@)]
    /\ co' = [co EXCEPT ![c] = [@ EXCEPT !.pc = "finally", !.got = "timeout"]]
    /\ cur' = c
    /\ UNCHANGED <<procVars, request_futures, next_request_id, stdin, outcome, tools_cache,
                   cfgVars, extVars, errLog, pumpLine, lastWarning, lock>>

\* Variant: no finally block, the entry stays in the map.
FinallyKeep(id) == request_futures

\* Lines 528-531: the finally block removes the entry under the lock.
FinallyPop(id) == request_futures \ {id}

\* Lines 524-531, then the caller of _send_mcp_request: the finally block
\* removes the entry; a result is returned converted to a string by the
\* approaches loop (lines 853-861) or parsed and cached by _get_mcp_tools
\* (lines 652-668); an exception reaches the except branch of either.
Finally(c) ==
    LET r == co[c]
        id == r.reqId IN
    /\ cur = c
    /\ r.pc = "finally"
    /\ lock = Free
    /\ request_futures' = FinallyPop(id)
    /\ outcome' = [outcome EXCEPT ![id] = r.got]
    /\ IF r.got # "resolve"
       THEN /\ co' = [co EXCEPT ![c] = Raised(r, r.got)]
            /\ UNCHANGED tools_cache
       ELSE IF r.ctx = "d"
       THEN \E shape \in Shapes :
              LET t == ParseTools(id, shape) IN
              IF t = NoCatalog
              THEN /\ co' = [co EXCEPT ![c] = ListFailed(r, "parse_error")]
                   /\ UNCHANGED tools_cache
              ELSE /\ co' = [co EXCEPT ![c] = ListDone(r, t, "resolve")]
                   /\ tools_cache' = t
       ELSE /\ \E ty \in PayloadTypes :
                 co' = [co EXCEPT ![c] = ReturnResult(r, future[id].val, ty)]
            /\ UNCHANGED tools_cache
    /\ cur' = IF Suspended(co'[c]) THEN 0 ELSE c
    /\ UNCHANGED <<procVars, future, next_request_id, stdin, cfgVars, extVars, errLog, pumpLine, lastWarning, lock>>

\* Lines 765-813: mcp_client_session.call_tool returns, or raises and the call
\* goes straight to the mock responses.
LibCall(c) ==
    /\ cur = 0
    /\ co[c].pc = "libcall"
    /\ \E ok \in BOOLEAN :
         co' = [co EXCEPT ![c] =
                  IF ok THEN [@ EXCEPT !.pc = "done",
                                       !.result = [kind |-> "success", val |-> 0, ty |-> "str"],
                                       !.got = "library"]
                  ELSE Fallback([@ EXCEPT !.got = "library_error"])]
    /\ cur' = 0
    /\ UNCHANGED <<procVars, reqVars, cfgVars, extVars, errLog, pumpLine, lastWarning, lock>>

(***************************************************************************)
(* _read_stdout: one thread per process spawned by _ensure_mcp_running     *)
(***************************************************************************)

\* The non-blank lines a worker may have printed on its stdout when the thread
\* reads the next one: a line that is not JSON, JSON that is no response,
\* or a result or error line for an id issued so far or for id 0, which is
\* never issued. The worker's payload for request i is i.
Lines ==
    {[kind |-> kd, id |-> 0, val |-> 0] : kd \in {"notjson", "unknown"}}
    \cup {[kind |-> kd, id |-> i, val |-> i] :
             kd \in {"result", "error"}, i \in {j \in 0..MaxIdSolo : j < next_request_id}}

\* Lines 417-453: what json.loads and the two `in` tests make of a line.
\* "result" and "error" are objects with an id and that member; "notjson"
\* raises JSONDecodeError; "unknown" is JSON that matches neither test.
IsResponse(line) == line.kind \in {"result", "error"}

\* Variant: responses are paired with requests in arrival order, the line's id
\* is ignored and the oldest pending entry is taken.
PumpTakeOldest(id) ==
    IF request_futures = {}
    THEN [who |-> id, found |-> FALSE, complete |-> FALSE, rest |-> request_futures]
    ELSE LET o == CHOOSE i \in request_futures : \A j \in request_futures : i <= j IN
         [who |-> o, found |-> TRUE, complete |-> future[o].st = "pending",
          rest |-> request_futures \ {o}]

\* Variant: the entry is read with get() and never popped, and the future is
\* completed without asking whether it is done.
PumpTakeNoPop(id) ==
    [who |-> id,
     found |-> id \in request_futures,
     complete |-> id \in request_futures,
     rest |-> request_futures]

\* Variant: a response whose id is unknown is given to the oldest pending entry.
PumpTakeDefault(id) ==
    IF id \in request_futures \/ request_futures = {}
    THEN [who |-> id,
          found |-> id \in request_futures,
          complete |-> id \in request_futures /\ future[id].st = "pending",
          rest |-> request_futures \ {id}]
    ELSE LET o == CHOOSE i \in request_futures : \A j \in request_futures : i <= j IN
         [who |-> o, found |-> TRUE, complete |-> future[o].st = "pending",
          rest |-> request_futures \ {o}]

\* Lines 426-429 (442-445): under the lock, the entry of the line's id is
\* looked up and popped, and its future is to be completed only if it is not
\* done yet. `who` is the id whose future was popped.
PumpTake(id) ==
    [who |-> id,
     found |-> id \in request_futures,
     complete |-> id \in request_futures /\ future[id].st = "pending",
     rest |-> request_futures \ {id}]

\* Lines 433-435, 449-455: the warning logged for a line that completes nothing.
Warning(line, take) ==
    IF ~IsResponse(line) THEN [kind |-> line.kind, id |-> 0]
    ELSE IF take.found THEN [kind |-> "already_done", id |-> line.id]
    ELSE [kind |-> "no_future", id |-> line.id]

\* Variant: the try statement encloses the loop, so a line that is not JSON
\* ends the thread.
PumpNextRaise(line) == IF line.kind = "notjson" THEN "crashed" ELSE "idle"

\* Lines 408, 454-459: the try statement is inside the for loop, so after a
\* line that completes nothing the thread reads the next line.
PumpNext(line) == "idle"

\* Lines 408-453 for one line (blank lines are skipped at lines 409-411 and
\* are left out). A line that is no response is logged and dropped. For a
\* response the lock is taken; an unknown id is logged and dropped, a known
\* one is popped, and a future that is not done goes on to be completed.
PumpReadLine(p, line) ==
    LET take == PumpTake(line.id) IN
    /\ pumpPc[p] = "idle"
    /\ IF IsResponse(line)
       THEN /\ lock = Free
            /\ request_futures' = take.rest
       ELSE UNCHANGED request_futures
    /\ IF IsResponse(line) /\ take.complete
       THEN /\ pumpPc' = [pumpPc EXCEPT ![p] = "set"]
            /\ lock' = HeldByPump(p)
            /\ pumpLine' = [pumpLine EXCEPT ![p] = [line EXCEPT !.id = take.who]]
            /\ UNCHANGED lastWarning
       ELSE /\ pumpPc' = [pumpPc EXCEPT ![p] = PumpNext(line)]
            /\ lastWarning' = Warning(line, take)
            /\ UNCHANGED <<lock, pumpLine>>
    /\ UNCHANGED <<is_running, mcp_process, hasSession, nspawn, alive, future,
                   next_request_id, stdin, outcome, tools_cache, cfgVars, extVars, errLog, cur, co>>

PumpRead(p) == \E line \in Lines : PumpReadLine(p, line)

\* Variant: both branches call set_result, an error line resolves its request.
SetFutureResult(f, line) ==
    IF f.st = "pending" THEN [st |-> "result", val |-> line.val] ELSE f

\* asyncio's Future.set_result / set_exception as called at lines 431 and 447:
\* a future that is no longer pending raises InvalidStateError, which the
\* handler at line 456 logs.
SetFuture(f, line) ==
    IF f.st = "pending"
    THEN [st |-> IF line.kind = "result" THEN "result" ELSE "exception", val |-> line.val]
    ELSE f

\* Lines 430-431 (446-447): set_result or set_exception, then the lock is
\* released and the loop goes on to the next line.
PumpComplete(p) ==
    LET line == pumpLine[p] IN
    /\ pumpPc[p] = "set"
    /\ future' = [future EXCEPT ![line.id] = SetFuture(@, line)]
    /\ pumpPc' = [pumpPc EXCEPT ![p] = "idle"]
    /\ pumpLine' = [pumpLine EXCEPT ![p] = NoLine]
    /\ lock' = Free
    /\ UNCHANGED <<is_running, mcp_process, hasSession, nspawn, alive, request_futures,
                   next_request_id, stdin, outcome, tools_cache, cfgVars, extVars, errLog, lastWarning, cur, co>>

\* Line 408: readline returns '' at end of file, which ends the thread.
PumpEOF(p) ==
    /\ pumpPc[p] = "idle"
    /\ ~alive[p]
    /\ pumpPc' = [pumpPc EXCEPT ![p] = "eof"]
    /\ UNCHANGED <<is_running, mcp_process, hasSession, nspawn, alive, reqVars,
                   cfgVars, extVars, errLog, pumpLine, lastWarning, lock, cur, co>>

(***************************************************************************)
(* The worker process                                                      *)
(***************************************************************************)

\* The worker process exits (crash or normal end).
WorkerExit(p) ==
    /\ alive[p]
    /\ alive' = [alive EXCEPT ![p] = FALSE]
    /\ UNCHANGED <<is_running, mcp_process, hasSession, nspawn, pumpPc, reqVars,
                   cfgVars, extVars, errLog, pumpLine, lastWarning, lock, cur, co>>

Next ==
    \/ \E c \in Callers : Start(c)
    \/ \E c \in Callers : EnsureFast(c)
    \/ \E c \in Callers : EnsureSpawn(c)
    \/ \E c \in Callers : EnsureSpawnFail(c)
    \/ \E c \in Callers : EnsureWake(c)
    \/ \E c \in Callers : LibSpawn(c)
    \/ \E c \in Callers : LibSpawnFail(c)
    \/ \E c \in Callers : LibWake(c)
    \/ \E c \in Callers : LibConnect(c)
    \/ \E c \in Callers : Resume(c)
    \/ \E c \in Callers : Timeout(c)
    \/ \E c \in Callers : Finally(c)
    \/ \E c \in Callers : LibCall(c)
    \/ \E p \in Procs : PumpRead(p)
    \/ \E p \in Procs : PumpComplete(p)
    \/ \E p \in Procs : PumpEOF(p)
    \/ \E p \in Procs : WorkerExit(p)

Spec == Init /\ [][Next]_vars

\* One client sending one MCPCallToolRequest, for a tool the airbnb catalog
\* holds or for one that no catalog holds.
InitCall ==
    /\ msg \in {[c \in Callers |-> IF c = 1 THEN [kind |-> "call", tool |-> t] ELSE NoMsg] :
                  t \in {"airbnb_search", "x"}}
    /\ InitAdapter

SpecCall == InitCall /\ [][Next]_vars

\* Two clients, the first sending an MCPListToolsRequest and the second an
\* MCPListToolsRequest or an MCPCallToolRequest.
InitList ==
    /\ msg \in {[c \in Callers |-> IF c = 1 THEN [kind |-> "list", tool |-> ""] ELSE m] :
                  m \in {[kind |-> "list", tool |-> ""],
                         [kind |-> "call", tool |-> "airbnb_search"]}}
    /\ InitAdapter

SpecList == InitList /\ [][Next]_vars

(***************************************************************************)
(* _read_stderr, lines with an unusable id, and cleanup at the end of run  *)
(***************************************************************************)

\* The non-blank lines a worker may have printed on its stderr: plain text,
\* text with one of the keywords of line 469, or a well-formed JSON-RPC result
\* or error line carrying the id of a pending request.
ErrLines ==
    {[kind |-> kd, id |-> 0] : kd \in {"text", "errortext"}}
    \cup {[kind |-> kd, id |-> i] : kd \in {"result", "error"}, i \in request_futures}

\* Lines 466-470: every line is logged as a warning, and as an error too when
\* it contains "error", "exception" or "fail" (an error response does).
ErrLevel(line) == IF line.kind \in {"errortext", "error"} THEN "error" ELSE "warning"

\* Variant: a response line read from stderr pops the entry of its id.
ErrFuturesPop(line) == request_futures \ {line.id}

\* Lines 461-478: _read_stderr never parses a line and never touches
\* self.request_futures.
ErrFutures(line) == request_futures

\* Lines 463-478 for one line of the stderr of process p: the line is logged.
ErrReadLine(p, line) ==
    /\ p <= nspawn
    /\ errLog' = [kind |-> line.kind, id |-> line.id, level |-> ErrLevel(line)]
    /\ request_futures' = ErrFutures(line)
    /\ UNCHANGED <<procVars, future, next_request_id, stdin, outcome, tools_cache,
                   cfgVars, extVars, pumpLine, lastWarning, lock, cur, co>>

ErrRead(p) == \E line \in ErrLines : ErrReadLine(p, line)

\* A worker that only answers requests that are pending: lines 408-453 for a
\* result or error line whose id has an entry in request_futures.
PumpAnswer(p) ==
    \E line \in {l \in Lines : IsResponse(l) /\ l.id \in request_futures} :
        PumpReadLine(p, line)

\* Variant: the lock is taken with acquire() and no try/finally, so an
\* exception leaves it held by the thread.
BadIdLockKept(p) == HeldByPump(p)

\* Lines 426-427, 456: leaving the with block by an exception releases the
\* lock before the handler at line 456 logs the error.
BadIdLock(p) == Free

\* Lines 417-427, 456-459 for a line such as {"id": [1], "result": 0}: both
\* `in` tests of line 421 pass, the lock is taken, and `req_id in
\* self.request_futures` raises TypeError for the unhashable id; the handler
\* of line 456 logs it and the loop reads the next line.
PumpReadBadId(p) ==
    /\ pumpPc[p] = "idle"
    /\ lock = Free
    /\ lock' = BadIdLock(p)
    /\ lastWarning' = [kind |-> "exception", id |-> 0]
    /\ UNCHANGED <<procVars, reqVars, cfgVars, extVars, errLog, pumpLine, cur, co>>

\* The value of `cur` once agent.run() has returned (lines 1004-1009): no
\* coroutine runs any more.
LoopEnded == NumCallers + 1

\* Lines 966-974: terminate() and wait(timeout=5) return ("exited"), wait
\* raises TimeoutExpired and kill() follows ("killed"), or terminate() raises
\* something else, which is logged ("raised").
CleanupHow == {"exited", "killed", "raised"}

\* Lines 1004-1009 and 962-988: agent.run() returns (the loop has stopped,
\* wherever the coroutines are) and the finally block calls cleanup(), which
\* deals with the process self.mcp_process refers to and sets is_running to
\* False. The stdout and stderr threads go on running.
Cleanup ==
    /\ cur # LoopEnded
    /\ cur' = LoopEnded
    /\ is_running' = FALSE
    /\ IF mcp_process = 0
       THEN UNCHANGED alive
       ELSE \E how \in CleanupHow :
              alive' = IF how = "raised" THEN alive
                       ELSE [alive EXCEPT ![mcp_process] = FALSE]
    /\ UNCHANGED <<mcp_process, hasSession, nspawn, pumpPc, reqVars, cfgVars, extVars, errLog,
                   pumpLine, lastWarning, lock, co>>

NextRun ==
    \/ \E c \in Callers : Start(c)
    \/ \E c \in Callers : EnsureFast(c)
    \/ \E c \in Callers : EnsureSpawn(c)
    \/ \E c \in Callers : EnsureSpawnFail(c)
    \/ \E c \in Callers : EnsureWake(c)
    \/ \E c \in Callers : Resume(c)
    \/ \E c \in Callers : Timeout(c)
    \/ \E c \in Callers : Finally(c)
    \/ \E p \in Procs : PumpAnswer(p)
    \/ \E p \in Procs : PumpReadBadId(p)
    \/ \E p \in Procs : PumpComplete(p)
    \/ \E p \in Procs : PumpEOF(p)
    \/ \E p \in Procs : ErrRead(p)
    \/ \E p \in Procs : WorkerExit(p)
    \/ Cleanup

\* An adapter other than the airbnb one with two clients, one asking for the
\* tools and one calling a tool; the worker answers on stdout and prints on
\* stderr, until run() ends.
InitRun ==
    /\ msg = [c \in Callers |-> IF c = 1 THEN [kind |-> "list", tool |-> ""]
                                 ELSE [kind |-> "call", tool |-> "airbnb_search"]]
    /\ InitAdapter
    /\ name = "other"

SpecRun == InitRun /\ [][NextRun]_vars

(***************************************************************************)
(* Properties                                                              *)
(***************************************************************************)

IdsWritten(p) == {stdin[p][n].id : n \in DOMAIN stdin[p]}

\* C1: every completed future holds the payload of a response line that carried
\* its own id, and every call that returns a worker result returns the payload
\* of the line carrying the id of its own request, whatever the order of the
\* response lines.
C1_OwnResult ==
    /\ \A i \in Ids : future[i].st \in {"result", "exception"} => future[i].val = i
    /\ \A c \in Callers :
         (co[c].pc = "done" /\ co[c].got = "resolve")
            => (co[c].result.kind = "success" /\ co[c].result.val = co[c].reqId)

\* Two requests are in flight on the same worker and the later one has been
\* answered and returned while the earlier one is still pending.
C1_Witness ==
    \E c, d \in Callers : \E p \in Procs :
        /\ c # d
        /\ co[c].pc = "wait" /\ co[c].reqId \in request_futures
        /\ co[d].pc = "done" /\ co[d].got = "resolve"
        /\ co[c].reqId < co[d].reqId
        /\ {co[c].reqId, co[d].reqId} \subseteq IdsWritten(p)

\* C2: no future is completed twice: a thread never reaches set_result or
\* set_exception for a future that already holds a result or an exception,
\* and a result or exception once set is never replaced.
C2_AtMostOnce ==
    /\ [](\A p \in Procs :
            pumpPc[p] = "set" => future[pumpLine[p].id].st \in {"pending", "cancelled"})
    /\ [][\A i \in Ids :
            future[i].st \in {"result", "exception"} => future'[i] = future[i]]_vars

\* A response races the timeout: the thread has popped the entry and is about
\* to call set_result while wait_for has already cancelled the future.
C2_Witness ==
    \E p \in Procs :
        /\ pumpPc[p] = "set"
        /\ future[pumpLine[p].id].st = "cancelled"

\* The _send_mcp_request call of id i has returned or raised.
Ended(i) ==
    /\ i < next_request_id
    /\ \A c \in Callers : ~(co[c].reqId = i /\ co[c].pc \in {"wait", "finally"})

C4_UnknownIdDropped ==
    [][\A p \in Procs : \A line \in Lines :
          (IsResponse(line) /\ line.id \notin request_futures /\ PumpReadLine(p, line))
             => (request_futures' = request_futures /\ future' = future)]_vars

\* A response with an unknown id has been dropped while another request is
\* pending.
C4_Witness ==
    /\ lastWarning.kind = "no_future"
    /\ \E i \in request_futures : i # lastWarning.id /\ future[i].st = "pending"

\* Caller c has an attempt that timed out.
TimedOut(c) ==
    \E i \in Ids : \E p \in Procs : \E n \in DOMAIN stdin[p] :
        outcome[i] = "timeout" /\ stdin[p][n].id = i /\ stdin[p][n].caller = c

\* C5 as stated: a call with a timed-out request returns a timeout result.
C5_CallReturnsTimeout ==
    \A c \in Callers : (co[c].pc = "done" /\ TimedOut(c)) => co[c].result.kind = "timeout"

\* C5 amended: a request that timed out ends its attempt with a failure, never
\* with a success, and from then on its id is absent from request_futures and
\* its future is cancelled; the call goes on to the next convention.
C5_AttemptTimesOut ==
    \A i \in Ids : outcome[i] = "timeout" =>
        /\ i \notin request_futures
        /\ future[i].st = "cancelled"
        /\ \A c \in Callers :
             co[c].reqId = i => /\ co[c].got # "resolve"
                                /\ co[c].result.kind # "success"
                                /\ (co[c].pc = "done" => co[c].k = NumApproaches)

\* A call whose first attempt timed out has returned the success of a later
\* attempt.
C5_Witness ==
    \E c \in Callers :
        /\ co[c].pc = "done" /\ TimedOut(c)
        /\ co[c].result.kind = "success"

\* C6: a response line that arrives for an id whose waiter has timed out and
\* removed the entry changes no future, no entry of request_futures, no
\* recorded outcome and no caller.
C6_LateResponseDropped ==
    [][\A p \in Procs : \A line \in Lines :
          (/\ IsResponse(line) /\ line.id \in Ids
           /\ outcome[line.id] = "timeout"
           /\ PumpReadLine(p, line))
             => (/\ request_futures' = request_futures
                 /\ future' = future
                 /\ outcome' = outcome
                 /\ co' = co
                 /\ pumpPc'[p] = "idle")]_vars

\* The line dropped last carried the id of a request that had timed out.
C6_Witness ==
    \E i \in Ids :
        /\ outcome[i] = "timeout"
        /\ lastWarning = [kind |-> "no_future", id |-> i]

C8_SingleSpawn ==
    Cardinality({c \in Callers : co[c].pc \in {"sleep", "connect"}}) <= 1

\* One caller is in the grace period after spawning and a second caller has
\* reached _ensure_mcp_running while the worker is not yet running.
C8_Witness ==
    \E c, d \in Callers :
        /\ c # d
        /\ co[c].pc = "sleep"
        /\ cur = d /\ co[d].pc = "ensure"
        /\ ~is_running

\* C9: a request line is written only to the current process, and that process
\* either had not exited at the poll() of the same step or was spawned by the
\* writing call itself, which was in the client library's handshake.
C9_WriteToLiveProcess ==
    [][\A p \in Procs :
          stdin'[p] # stdin[p] =>
             /\ p = mcp_process'
             /\ \/ alive[p]
                \/ \E c \in Callers : co[c].pc = "connect" /\ co'[c].pc = "wait"]_vars

\* The first worker exited after a call it answered had returned, and a
\* second call wrote its request to a second worker.
C9_Witness ==
    \E c, d \in Callers :
        /\ c # d
        /\ ~alive[1]
        /\ co[c].pc = "done" /\ co[c].got = "resolve" /\ co[c].reqId \in IdsWritten(1)
        /\ co[d].pc = "wait" /\ co[d].reqId \in IdsWritten(2)
        /\ stdin[1] = <<[id |-> co[c].reqId, caller |-> c, k |-> 1]>>

\* C10 as stated: when every spawn has failed, a finished call has returned
\* connection-unavailable and has started none of the calling conventions.
C10_ConnectionUnavailable ==
    \A c \in Callers :
        (co[c].pc = "done" /\ nspawn = 0)
           => (co[c].result.kind = "connection_unavailable" /\ co[c].k = 0)

\* The request lines client c's handler has written, to whichever process.
Written(c) ==
    UNION {{stdin[p][n] : n \in {m \in DOMAIN stdin[p] : stdin[p][m].caller = c}} : p \in Procs}

\* C11: a call holds a worker's success only when it has returned it: the
\* result is the string made of the payload answering its last request, that
\* request is the one of the convention the loop stopped at, and no request
\* of a later convention was ever written for the call.
C11_FirstSuccessReturns ==
    \A c \in Callers :
        (co[c].result.kind = "success" /\ co[c].got # "library") =>
            /\ co[c].pc = "done"
            /\ co[c].result = [kind |-> "success", val |-> co[c].reqId, ty |-> "str"]
            /\ future[co[c].reqId].st = "result"
            /\ \E e \in Written(c) : e.id = co[c].reqId /\ e.k = co[c].k
            /\ \A e \in Written(c) : e.id <= co[c].reqId /\ e.k <= co[c].k

\* The first convention's request ended in an error or a timeout, the second
\* was answered with a success and the call returned while ids were left for
\* a third request.
C11_Witness ==
    \E c \in Callers : \E e \in Written(c) :
        /\ co[c].pc = "done" /\ co[c].result.kind = "success"
        /\ co[c].k = 2
        /\ e.k = 1 /\ outcome[e.id] \in {"fail", "timeout"}
        /\ next_request_id <= IdBound
        /\ Cardinality(Written(c)) = 2

\* C12: the requests of one call are written in the order of the conventions:
\* a later request belongs to a later convention, every request of an earlier
\* convention than the current one has ended in an error or a timeout, and at
\* most one request of the call is in request_futures.
C12_StrictOrder ==
    \A c \in Callers :
        /\ \A e \in Written(c) :
             /\ e.k \in 0..NumApproaches /\ e.k <= co[c].k
             /\ e.k < co[c].k => outcome[e.id] \in {"fail", "timeout"}
        /\ \A e1, e2 \in Written(c) : e1.id < e2.id => e1.k < e2.k
        /\ Cardinality({e \in Written(c) : e.id \in request_futures}) <= 1

\* All four conventions of one call have been written, in order; the first
\* three have ended and the fourth is pending.
C12_Witness ==
    \E c \in Callers :
        /\ {e.k : e \in Written(c)} = 1..NumApproaches
        /\ co[c].k = NumApproaches
        /\ co[c].pc = "wait"
        /\ co[c].reqId \in request_futures

\* C13 as stated: a call one of whose attempts was answered with an error
\* returns a worker-error result for that attempt and stops at it.
C13_WorkerErrorReturned ==
    \A c \in Callers : \A e \in Written(c) :
        (co[c].pc = "done" /\ e.k >= 1 /\ outcome[e.id] = "fail")
           => (co[c].result.kind = "worker_error" /\ co[c].k = e.k)

\* C13 amended: an attempt answered with an error ends with the worker's
\* error as the exception of its own future, and the call goes on to the next
\* convention; no call returns a worker-error result, and what is returned
\* after the last convention carries nothing of the worker's error.
C13_WorkerErrorNextApproach ==
    \A c \in Callers :
        /\ co[c].result.kind # "worker_error"
        /\ \A e \in Written(c) :
             (e.k >= 1 /\ outcome[e.id] = "fail") =>
                /\ future[e.id] = [st |-> "exception", val |-> e.id]
                /\ \/ co[c].k > e.k
                   \/ /\ e.k = NumApproaches
                      /\ co[c].pc = "done"
                      /\ co[c].result.kind \in {"placeholder", "unknown_tool", "all_failed"}
                      /\ co[c].result.val = 0

\* Every convention of a call was answered with an error and the call ended
\* with "All approaches failed".
C13_Witness ==
    \E c \in Callers :
        /\ co[c].pc = "done" /\ co[c].result.kind = "all_failed"
        /\ Cardinality(Written(c)) = NumApproaches
        /\ \A e \in Written(c) : outcome[e.id] = "fail"

\* Every convention of client c's call was written and ended in an error or a
\* timeout, and the call has returned.
Exhausted(c) ==
    /\ co[c].pc = "done"
    /\ {e.k : e \in Written(c)} = 1..NumApproaches
    /\ \A e \in Written(c) : outcome[e.id] \in {"fail", "timeout"}

\* C14 as stated: an exhausted call returns the placeholder on the airbnb
\* adapter and all-attempts-failed on any other.
C14_PlaceholderOrAllFailed ==
    \A c \in Callers :
        Exhausted(c) =>
            co[c].result.kind = IF name = "airbnb" THEN "placeholder" ELSE "all_failed"

\* C15 as stated: the placeholder is returned only after all conventions were
\* tried and while no worker process is alive.
C15_PlaceholderLastResort ==
    \A c \in Callers :
        co[c].result.kind = "placeholder" =>
            /\ co[c].k = NumApproaches
            /\ ~(mcp_process # 0 /\ alive[mcp_process])

\* C15 amended: the placeholder is returned only by the airbnb adapter, and
\* only after every convention was tried and failed (whether or not a worker
\* is alive) or after the client-library path was taken and failed, in which
\* case no convention is tried.
C15_PlaceholderPaths ==
    \A c \in Callers :
        co[c].result.kind = "placeholder" =>
            /\ name = "airbnb"
            /\ co[c].pc = "done"
            /\ \/ /\ co[c].k = NumApproaches
                  /\ co[c].got \in {"fail", "timeout", "writefail", "not_running"}
                  /\ \A e \in Written(c) : outcome[e.id] \in {"fail", "timeout"}
               \/ /\ co[c].k = 0
                  /\ co[c].ctx = "l"
                  /\ HAS_MCP_CLIENT /\ hasSession
                  /\ co[c].got \in {"not_running", "library_error"}
                  /\ Written(c) = {}

\* The client-library call raised and the placeholder was returned with no
\* convention tried, the worker being alive.
C15_Witness ==
    \E c \in Callers :
        /\ co[c].result.kind = "placeholder"
        /\ co[c].k = 0
        /\ co[c].got = "library_error"
        /\ mcp_process # 0 /\ alive[mcp_process]

\* C16 as stated: a call for a tool that is in no catalog spawns no process,
\* writes no request and ends with a not-found failure.
C16_UnknownToolRejected ==
    \A c \in Callers :
        (co[c].tool = "x" /\ co[c].pc # "idle") =>
            /\ nspawn = 0
            /\ Written(c) = {}
            /\ co[c].pc = "done" => co[c].result.kind = "not_found"

C18_StaleCacheNotServed ==
    [][\A c \in Callers :
          (co'[c].got = "cache" /\ co[c].got # "cache" /\ tools_cache.src # 0)
             => \A p \in Procs : tools_cache.src \in IdsWritten(p) => alive[p]]_vars

\* C19 as stated: only a catalog all of whose descriptors were parsed is ever
\* cached or returned; otherwise the cache stays empty and the empty list of a
\* failed discovery is returned.
C19_OnlyFullCatalog ==
    /\ tools_cache.q \in {"none", "hardcoded", "full"}
    /\ \A c \in Callers : co[c].tools.q \in {"none", "hardcoded", "full", "empty"}

\* All request lines written so far, as pairs of process and position.
AllWritten == UNION {{<<p, n>> : n \in DOMAIN stdin[p]} : p \in Procs}

\* C20: the ids of the request lines written so far are pairwise distinct and
\* increase in the order of writing, also from one worker process to the
\* next; next_request_id is beyond all of them and never decreases; and a
\* request is written only under an id that was never issued before.
C20_IdsIncrease ==
    /\ [](/\ \A x, y \in AllWritten :
               (x[1] < y[1] \/ (x[1] = y[1] /\ x[2] < y[2]))
                  => stdin[x[1]][x[2]].id < stdin[y[1]][y[2]].id
          /\ \A x \in AllWritten : stdin[x[1]][x[2]].id < next_request_id
          /\ \A i \in request_futures : i < next_request_id)
    /\ [][/\ next_request_id' >= next_request_id
          /\ \A p \in Procs :
               Len(stdin'[p]) > Len(stdin[p]) =>
                  LET id == stdin'[p][Len(stdin'[p])].id IN
                  /\ id = next_request_id
                  /\ id \notin request_futures
                  /\ future[id] = NoFuture]_vars

\* Requests were written to two worker processes, the first of them still
\* pending when the second was written.
C20_Witness ==
    /\ Len(stdin[1]) >= 1
    /\ Len(stdin[2]) >= 1
    /\ stdin[1][1].id \in request_futures
    /\ stdin[2][1].id \in request_futures

\* C21: issuing an id and writing its request line are one step of the event
\* loop: every id issued so far has its line written or its write failed;
\* a step appends at most one line to one process, whole and at the end,
\* leaving the lines written before as they are; the line carries the id
\* issued in that same step.
C21_WriteAtomic ==
    /\ [](\A i \in Ids : i < next_request_id =>
             \/ \E p \in Procs : i \in IdsWritten(p)
             \/ outcome[i] = "writefail")
    /\ [][/\ \A p \in Procs :
               stdin'[p] # stdin[p] =>
                  /\ Len(stdin'[p]) = Len(stdin[p]) + 1
                  /\ SubSeq(stdin'[p], 1, Len(stdin[p])) = stdin[p]
                  /\ \A q \in Procs \ {p} : stdin'[q] = stdin[q]
                  /\ \E c \in Callers :
                        /\ stdin'[p][Len(stdin'[p])] =
                              [id |-> next_request_id, caller |-> c, k |-> co[c].k]
                        /\ co[c].pc # "wait"
                        /\ co'[c].pc = "wait" /\ co'[c].reqId = next_request_id
                        /\ cur \in {0, c}
                  /\ next_request_id' = next_request_id + 1
          /\ next_request_id' # next_request_id =>
                \/ \E p \in Procs : stdin'[p] # stdin[p]
                \/ outcome'[next_request_id] = "writefail"]_vars

\* The requests of two callers were written one after the other to the same
\* process and both are pending.
C21_Witness ==
    \E p \in Procs :
        /\ Len(stdin[p]) = 2
        /\ stdin[p][1].caller # stdin[p][2].caller
        /\ {stdin[p][1].id, stdin[p][2].id} \subseteq request_futures
        /\ \A c \in Callers : co[c].pc = "wait"
\* C22: a step in which a stderr thread logs a line, be it a well-formed
\* response for a pending id, leaves request_futures, every future, every
\* recorded outcome, every caller, the stdout threads and the lock as they
\* were; and a future is completed only by a stdout thread in its "set" step.
C22_StderrNeverResolves ==
    [][/\ (errLog' # errLog \/ \E p \in Procs : \E line \in ErrLines : ErrReadLine(p, line))
            => /\ request_futures' = request_futures
               /\ future' = future
               /\ outcome' = outcome
               /\ co' = co
               /\ pumpPc' = pumpPc /\ pumpLine' = pumpLine
               /\ lock' = lock
       /\ \A i \in Ids :
            (future[i].st = "pending" /\ future'[i].st \in {"result", "exception"})
               => \E p \in Procs : pumpPc[p] = "set" /\ pumpLine[p].id = i]_vars

\* The stderr thread has logged a result line carrying the id of a request
\* that is still pending, its caller still waiting.
C22_Witness ==
    /\ errLog.kind = "result"
    /\ errLog.id \in request_futures
    /\ future[errLog.id].st = "pending"
    /\ \E c \in Callers : co[c].pc = "wait" /\ co[c].reqId = errLog.id
\* C23 as stated: whenever _ensure_mcp_running returns False because Popen
\* raised or the process had exited at the poll() after the grace period,
\* is_running is False afterwards, also when an earlier start had succeeded.
C23_FailedStartTerminated ==
    [][\A c \in Callers :
          (\/ EnsureSpawnFail(c)
           \/ LibSpawnFail(c)
           \/ (co[c].pc = "sleep" /\ ~alive[mcp_process]
                  /\ (EnsureWake(c) \/ LibWake(c))))
             => ~is_running']_vars
\* C24 as stated: once cleanup has run, is_running is False and the worker
\* process self.mcp_process refers to is no longer alive, however the
\* terminate() request went.
C24_CleanupTerminates ==
    cur = LoopEnded =>
        /\ ~is_running
        /\ mcp_process # 0 => ~alive[mcp_process]
\* C25: when is_running is set and the current process has not exited, a
\* caller's step through _ensure_mcp_running creates no process, starts no
\* thread, changes no lifecycle field, does not sleep and leaves the lock
\* free; the caller goes on as after True: _send_mcp_request issues its id,
\* the library path awaits call_tool.
C25_FastPath ==
    [][\A c \in Callers :
          (/\ co[c].pc = "ensure"
           /\ is_running /\ mcp_process # 0 /\ alive[mcp_process]
           /\ co'[c] # co[c])
             => /\ nspawn' = nspawn /\ mcp_process' = mcp_process
                /\ alive' = alive /\ pumpPc' = pumpPc
                /\ is_running' /\ hasSession' = hasSession
                /\ lock = Free /\ lock' = Free
                /\ co'[c].pc \notin {"sleep", "connect"}
                /\ co[c].ctx \in {"s", "d"} =>
                      /\ next_request_id' = next_request_id + 1
                      /\ co'[c].reqId = next_request_id
                /\ co[c].ctx = "l" => co'[c].pc = "libcall"]_vars

\* A call wrote the request of its second convention to the worker that its
\* first convention had started, no other process having been created.
C25_Witness ==
    \E c \in Callers :
        /\ co[c].k = 2 /\ co[c].pc = "wait"
        /\ nspawn = 1 /\ alive[1] /\ is_running
        /\ {e.k : e \in Written(c)} = {1, 2}
C27_CallTerminates ==
    \/ \A c \in Callers : msg[c].kind # "none" => co[c].pc = "done"
    \/ next_request_id > IdBound
    \/ ENABLED Next
\* C28 as stated: at most one process spawned by the adapter is alive at any
\* time.
C28_OneLiveWorker == Cardinality({p \in Procs : alive[p]}) <= 1
\* C29: each line a stdout thread reads has exactly one of three outcomes.
\* A result line whose id has an entry with a pending future pops the entry
\* and sets the line's payload as the future's result; an error line does
\* the same with the worker's error as the future's exception; every other
\* line (no JSON, no response, an unknown id, a future already done) changes
\* no future and leaves the thread reading. Nothing else completes a future.
C29_Classified ==
    /\ [](\A p \in Procs : pumpPc[p] = "set" => pumpLine[p].kind \in {"result", "error"})
    /\ [][/\ \A p \in Procs : \A line \in Lines :
               PumpReadLine(p, line) =>
                  IF /\ line.kind \in {"result", "error"}
                     /\ line.id \in request_futures
                     /\ future[line.id].st = "pending"
                  THEN /\ pumpPc'[p] = "set" /\ pumpLine'[p] = line
                       /\ request_futures' = request_futures \ {line.id}
                       /\ future' = future
                  ELSE /\ pumpPc'[p] = "idle" /\ pumpLine' = pumpLine
                       /\ future' = future
                       /\ request_futures' = request_futures \ {line.id}
                       /\ lastWarning'.kind \in {"notjson", "unknown", "no_future", "already_done"}
          /\ \A p \in Procs :
               (pumpPc[p] = "set" /\ pumpPc'[p] # "set") =>
                  LET line == pumpLine[p] IN
                  /\ \A j \in Ids \ {line.id} : future'[j] = future[j]
                  /\ future[line.id].st = "pending" =>
                        future'[line.id] =
                           [st |-> IF line.kind = "result" THEN "result" ELSE "exception",
                            val |-> line.val]
                  /\ future[line.id].st # "pending" => future'[line.id] = future[line.id]
          /\ \A i \in Ids :
               (future'[i].st \in {"result", "exception"} /\ future'[i] # future[i]) =>
                  \E p \in Procs :
                     /\ pumpPc[p] = "set" /\ pumpLine[p].id = i
                     /\ (future'[i].st = "result") = (pumpLine[p].kind = "result")]_vars

\* A result line has resolved one request and an error line has failed
\* another, and the line read last was JSON of no known format and was
\* dropped.
C29_Witness ==
    /\ lastWarning.kind = "unknown"
    /\ \E i, j \in Ids :
          /\ future[i] = [st |-> "result", val |-> i]
          /\ future[j] = [st |-> "exception", val |-> j]
\* C30 as stated, in the form a finite run refutes: no coroutine ever stands
\* at `with self.lock` of _ensure_mcp_running, occupying the event loop
\* thread, while the lock is held by another coroutine that is suspended in
\* the grace period and can only be resumed by that same thread.
C30_NoDeadlock ==
    \A c, d \in Callers :
        ~(/\ c # d
          /\ lock = HeldByCo(c)
          /\ Suspended(co[c])
          /\ cur = d
          /\ co[d].pc = "ensure")
\* C31: request_futures holds only ids of _send_mcp_request calls that have
\* not returned yet: each of its ids is the id of a caller that is waiting
\* for the response or running the finally block after the wait, its request
\* line was written and its future has no result; an id whose call has
\* returned or raised, by a result, a worker error, a timeout or a failed
\* write, is not in it.
C31_NoLeak ==
    /\ \A i \in request_futures :
          /\ \E c \in Callers : co[c].reqId = i /\ co[c].pc \in {"wait", "finally"}
          /\ \E p \in Procs : i \in IdsWritten(p)
          /\ future[i].st \in {"pending", "cancelled"}
    /\ \A c \in Callers : co[c].pc \notin {"wait", "finally"} => co[c].reqId \notin request_futures
    /\ \A i \in Ids : outcome[i] # "none" => i \notin request_futures
    /\ Cardinality(request_futures)
          <= Cardinality({c \in Callers : co[c].pc \in {"wait", "finally"}})

\* One call has raised after a timeout and another after a worker error, and
\* request_futures is empty again.
C31_Witness ==
    /\ request_futures = {}
    /\ \E i, j \in Ids : outcome[i] = "timeout" /\ outcome[j] = "fail"

\* ---------------------------------------------------------------------------
\* AirbnbMCPAdapter (src/mcp-uagent-adapter/src/airbnb_mcp_adapter.py)
\* ---------------------------------------------------------------------------

\* A line of the worker's stdout: the answer to call `of` ("result" or
\* "error"), a JSON object that answers no request ("note", of = 0), or text
\* that is not JSON ("text", of = 0).  An answer echoes the id of its request.
AbAnswer(k, n) == [kind |-> k, id |-> AbRequestId, of |-> n]
AbOther(k) == [kind |-> k, id |-> 0, of |-> 0]

\* What _call_mcp_tool does with the line it read: json.loads raises on text
\* and on the empty line of end of file, an object with "error" raises, and
\* any other object yields response.get("result"), None when it has none.
AbOutcome(line) ==
    CASE line.kind = "result" -> [kind |-> "value", of |-> line.of]
      [] line.kind = "note"   -> [kind |-> "null", of |-> line.of]
      [] OTHER                -> [kind |-> "raise", of |-> line.of]

\* _call_mcp_tool up to readline: the request, always with id 1, is written
\* and flushed to a running worker, which reads it.
AbCallWrite ==
    /\ abPc = "idle"
    /\ abCall < MaxAbCalls
    /\ abAlive
    /\ abCall' = abCall + 1
    /\ abPending' = abPending \cup {abCall + 1}
    /\ abPc' = "read"
    /\ UNCHANGED <<abStdout, abRet, abAlive, abOthers>>

\* _call_mcp_tool when the worker has exited: flush raises, the call raises.
AbCallWriteFail ==
    /\ abPc = "idle"
    /\ abCall < MaxAbCalls
    /\ ~abAlive
    /\ abCall' = abCall + 1
    /\ abRet' = [abRet EXCEPT ![abCall + 1] = [kind |-> "raise", of |-> 0]]
    /\ UNCHANGED <<abPc, abPending, abStdout, abAlive, abOthers>>

\* stdout.readline() returns the oldest unread line, whatever it is, and the
\* call ends with what that line yields.
AbReadLine ==
    /\ abPc = "read"
    /\ abStdout # <<>>
    /\ abRet' = [abRet EXCEPT ![abCall] = AbOutcome(Head(abStdout))]
    /\ abStdout' = Tail(abStdout)
    /\ abPc' = "idle"
    /\ UNCHANGED <<abCall, abPending, abAlive, abOthers>>

\* readline() at end of file returns the empty string: json.loads raises.
AbReadEOF ==
    /\ abPc = "read"
    /\ abStdout = <<>>
    /\ ~abAlive
    /\ abRet' = [abRet EXCEPT ![abCall] = [kind |-> "raise", of |-> 0]]
    /\ abPc' = "idle"
    /\ UNCHANGED <<abCall, abPending, abStdout, abAlive, abOthers>>

\* The worker answers a request it has read, with a result or an error.
AbWorkerAnswer ==
    /\ abAlive
    /\ \E n \in abPending, k \in {"result", "error"} :
          /\ abStdout' = Append(abStdout, AbAnswer(k, n))
          /\ abPending' = abPending \ {n}
    /\ UNCHANGED <<abPc, abCall, abRet, abAlive, abOthers>>

\* The worker writes a line that answers no request: a notification or text.
AbWorkerOther ==
    /\ abAlive
    /\ Len(abStdout) < MaxAbLines
    /\ \E k \in {"note", "text"} : abStdout' = Append(abStdout, AbOther(k))
    /\ UNCHANGED <<abPc, abCall, abPending, abRet, abAlive, abOthers>>

\* The worker exits; what it had written stays in the pipe.
AbWorkerExit ==
    /\ abAlive
    /\ abAlive' = FALSE
    /\ abPending' = {}
    /\ UNCHANGED <<abPc, abCall, abStdout, abRet, abOthers>>

NextAirbnb ==
    \/ AbCallWrite
    \/ AbCallWriteFail
    \/ AbReadLine
    \/ AbReadEOF
    \/ AbWorkerAnswer
    \/ AbWorkerOther
    \/ AbWorkerExit

\* AirbnbMCPAdapter after _start_mcp_server: the worker runs and has written
\* nothing; MCPServerAdapter is not used.
InitAirbnb ==
    /\ msg = [c \in Callers |-> NoMsg]
    /\ InitServerAdapter
    /\ name = "other"
    /\ abPc = "idle"
    /\ abCall = 0
    /\ abPending = {}
    /\ abStdout = <<>>
    /\ abRet = [n \in AbCalls |-> AbNoRet]
    /\ abAlive = TRUE
    /\ InitBr
    /\ InitPx(<<>>)
    /\ InitCl

SpecAirbnb == InitAirbnb /\ [][NextAirbnb]_vars

\* C32: a value _call_mcp_tool returns for call n comes from the worker's
\* answer to call n, never from a line left by another call or from a line
\* that answers no request.
C32_OwnResponse ==
    \A n \in AbCalls : abRet[n].kind \in {"value", "null"} => abRet[n].of = n

\* ---------------------------------------------------------------------------
\* UAgentBridgeClient (src/mcp-uagent-bridge/bridge.py)
\* ---------------------------------------------------------------------------

\* Each call of call_tool draws a fresh uuid4 as its request id: call i is the
\* call with request id i.

\* call_tool up to the await of wait_for (lines 75-81): the future is created
\* and registered and the request is put on the outgoing queue.
BrCallTool(i) ==
    /\ brPc[i] = "new"
    /\ \A j \in BrCalls : j < i => brPc[j] # "new"
    /\ brFuture' = [brFuture EXCEPT ![i] = NewFuture]
    /\ pending_futures' = pending_futures \cup {i}
    /\ outgoing_queue' = outgoing_queue \cup {i}
    /\ brPc' = [brPc EXCEPT ![i] = "wait"]
    /\ UNCHANGED <<brSent, brInbox, brResp, brWarned, brInvalid, brOthers>>

\* process_queue (lines 62-66): every queued request is sent to the target.
BrProcessQueue ==
    /\ outgoing_queue # {}
    /\ brSent' = brSent \cup outgoing_queue
    /\ outgoing_queue' = {}
    /\ UNCHANGED <<pending_futures, brFuture, brInbox, brPc, brResp, brWarned, brInvalid,
                   brOthers>>

\* The target agent answers a request with an MCPResponse that carries the
\* request's id (airbnb_mcp_server_uagent.py lines 49 and 52).
BrTargetReply(i) ==
    /\ i \in brSent
    /\ brSent' = brSent \ {i}
    /\ brInbox' = brInbox \cup {i}
    /\ UNCHANGED <<pending_futures, brFuture, outgoing_queue, brPc, brResp, brWarned,
                   brInvalid, brOthers>>

\* An MCPResponse whose request_id names no request of this bridge arrives.
BrStrayResponse ==
    /\ BrUnknownId \notin brInbox
    /\ BrUnknownId \notin brWarned
    /\ brInbox' = brInbox \cup {BrUnknownId}
    /\ UNCHANGED <<pending_futures, brFuture, outgoing_queue, brSent, brPc, brResp, brWarned,
                   brInvalid, brOthers>>

\* pending_futures.pop(msg.request_id, None), line 57.
BrPop(m) == pending_futures \ {m}

\* fut.set_result(msg), line 59: the future takes the response; on a future
\* that is already done set_result raises InvalidStateError and changes nothing.
BrSetResult(f, m) == IF f.st = "pending" THEN [st |-> "done", val |-> m] ELSE f

\* handle_response (lines 54-61) for the response with request id m.
BrHandleResponse(m) ==
    /\ m \in brInbox
    /\ brInbox' = brInbox \ {m}
    /\ pending_futures' = BrPop(m)
    /\ IF m \in pending_futures
       THEN /\ brFuture' = [brFuture EXCEPT ![m] = BrSetResult(brFuture[m], m)]
            /\ brInvalid' = IF brFuture[m].st = "pending" THEN brInvalid
                                                           ELSE brInvalid \cup {m}
            /\ UNCHANGED brWarned
       ELSE /\ brWarned' = brWarned \cup {m}
            /\ UNCHANGED <<brFuture, brInvalid>>
    /\ UNCHANGED <<outgoing_queue, brSent, brPc, brResp, brOthers>>

\* wait_for returns the result of the future (lines 81-82).
BrReturn(i) ==
    /\ brPc[i] = "wait"
    /\ brFuture[i].st = "done"
    /\ brResp' = [brResp EXCEPT ![i] = brFuture[i].val]
    /\ brPc' = [brPc EXCEPT ![i] = "returned"]
    /\ UNCHANGED <<pending_futures, brFuture, outgoing_queue, brSent, brInbox, brWarned,
                   brInvalid, brOthers>>

\* The 90 seconds of wait_for pass (line 81): wait_for cancels the future; the
\* TimeoutError reaches call_tool when its task runs next.
BrTimeout(i) ==
    /\ brPc[i] = "wait"
    /\ brFuture[i].st = "pending"
    /\ brFuture' = [brFuture EXCEPT ![i].st = "cancelled"]
    /\ brPc' = [brPc EXCEPT ![i] = "timedout"]
    /\ UNCHANGED <<pending_futures, outgoing_queue, brSent, brInbox, brResp, brWarned,
                   brInvalid, brOthers>>

\* The except clause without the pop.
BrExceptKeep(i) == pending_futures

\* self.pending_futures.pop(req_id, None), line 84.
BrExceptPop(i) == pending_futures \ {i}

\* The except clause of call_tool (lines 83-85): the id is removed and the
\* exception is raised again.
BrExcept(i) ==
    /\ brPc[i] = "timedout"
    /\ pending_futures' = BrExceptPop(i)
    /\ brPc' = [brPc EXCEPT ![i] = "raised"]
    /\ UNCHANGED <<brFuture, outgoing_queue, brSent, brInbox, brResp, brWarned, brInvalid,
                   brOthers>>

NextBridge ==
    \/ \E i \in BrCalls : BrCallTool(i)
    \/ BrProcessQueue
    \/ \E i \in BrCalls : BrTargetReply(i)
    \/ BrStrayResponse
    \/ \E m \in BrCalls \cup {BrUnknownId} : BrHandleResponse(m)
    \/ \E i \in BrCalls : BrReturn(i)
    \/ \E i \in BrCalls : BrTimeout(i)
    \/ \E i \in BrCalls : BrExcept(i)

\* UAgentBridgeClient after __init__; MCPServerAdapter and AirbnbMCPAdapter
\* are not used.
InitBridge ==
    /\ msg = [c \in Callers |-> NoMsg]
    /\ InitAdapter
    /\ name = "other"

SpecBridge == InitBridge /\ [][NextBridge]_vars

\* A step that completes a future completes the future of a response that was
\* in flight with that very id, hands it that response and touches no other
\* future; a step that takes in a response whose id is not pending changes
\* neither the pending map nor any future.
C33_Step ==
    /\ \A i \in BrCalls :
          (brFuture[i].st = "pending" /\ brFuture'[i].st = "done") =>
              /\ i \in pending_futures
              /\ i \in brInbox /\ i \notin brInbox'
              /\ brFuture'[i].val = i
              /\ pending_futures' = pending_futures \ {i}
              /\ \A j \in BrCalls \ {i} : brFuture'[j] = brFuture[j]
    /\ \A m \in brInbox \ brInbox' :
          m \notin pending_futures => UNCHANGED <<pending_futures, brFuture>>

\* A call that has returned or raised is not in the pending map, and a call
\* that has returned a response returned the response with its own id.
C33_Ended ==
    \A i \in BrCalls :
        /\ brPc[i] \in {"returned", "raised"} => i \notin pending_futures
        /\ brPc[i] = "returned" => brResp[i] = i

C34_SetResultPending == brInvalid = {}

\* ---------------------------------------------------------------------------
\* mcp_proxy.main (src/mcp-uagent-bridge/mcp_proxy.py) and handle_jsonrpc
\* (src/mcp-uagent-bridge/bridge.py)
\* ---------------------------------------------------------------------------

HANDSHAKE_METHODS == {"initialize", "tools/list", "resources/list", "prompts/list"}

\* Methods that start with "notifications/".
PxNotifications == {"notifications/initialized", "notifications/cancelled"}

\* The "method" of an object: a handshake method, a notification, the method
\* the bridge forwards as a tool call, no method at all ("none"), or a value
\* that is not a string ("number").
PxMethods == {"initialize", "tools/list", "tools/call", "none", "number"} \cup PxNotifications

\* A line of stdin: blank, text that is not JSON, a JSON value that is not an
\* object (a list without the element "id", a list with it, a number), or an
\* object.  id = 0 stands for an object with no "id"; params is "object", or
\* "null" for a "params" that is not an object.
PxNoId == 0
PxOtherLines ==
    {[kind |-> k, id |-> PxNoId, method |-> "none", params |-> "object"] :
        k \in {"blank", "text", "list", "listWithId", "number"}}
PxObjects ==
    [kind : {"object"}, id : 0..MaxPxId, method : PxMethods, params : {"object", "null"}]
PxLines == PxOtherLines \cup PxObjects

\* The id of a null "id" in a line of stdout.
PxNullId == 0

\* A line of stdout: a result or an error with a code, with the id it carries
\* and the id of the request it was written for.
PxResult(i, l) == [kind |-> "result", id |-> i, code |-> 0, of |-> l.id]
PxError(i, c, l) == [kind |-> "error", id |-> i, code |-> c, of |-> l.id]

\* `if "id" in req:` before every write of main (lines 116, 130, 135).
PxEmitNothing(l, out) == pxOut
PxEmit(l, out) == IF l.id # PxNoId THEN Append(pxOut, out) ELSE pxOut

\* Where main is after the except clause of line 145: at the top of the loop.
PxAfterErrorBreak == "done"
PxAfterError == "read"

\* One iteration of the loop has dealt with the line at the head of stdin.
PxTake(how) ==
    /\ pxPc = "read"
    /\ pxIn # <<>>
    /\ pxIn' = Tail(pxIn)
    /\ pxSeen' = Append(pxSeen, Head(pxIn))
    /\ pxHow' = how
    /\ UNCHANGED pxOthers

\* Lines 115-120: a handshake method is answered locally, if it has an id.
\* handle_initialize reads params.protocolVersion and raises on a "params"
\* that is not an object.
PxLocal ==
    /\ PxTake("local")
    /\ LET l == Head(pxIn) IN
          /\ l.kind = "object"
          /\ l.method \in HANDSHAKE_METHODS
          /\ ~(l.method = "initialize" /\ l.params = "null" /\ l.id # PxNoId)
          /\ pxOut' = PxEmit(l, PxResult(l.id, l))
    /\ pxPc' = "read"

\* Lines 121-123: a notification is ignored.
PxNotification ==
    /\ PxTake("ignored")
    /\ LET l == Head(pxIn) IN
          /\ l.kind = "object"
          /\ l.method \in PxNotifications
    /\ pxOut' = pxOut
    /\ pxPc' = "read"

\* The methods main posts to the bridge (line 124).
PxForwarded(l) ==
    /\ l.kind = "object"
    /\ l.method \notin HANDSHAKE_METHODS
    /\ l.method \notin PxNotifications
    /\ l.method # "number"

\* How call_tool can end inside handle_jsonrpc for the request l: with a
\* successful response, with a response that reports an error, or by raising
\* (the 90 seconds passed).  With a "params" that is not an object
\* handle_jsonrpc raises before the call (bridge.py lines 153, 157).
BridgeOutcomes(l) == IF l.params = "null" THEN {"raise"} ELSE {"success", "failure", "raise"}

\* handle_jsonrpc (bridge.py lines 134-200): the body of the HTTP response.
\* The except clause of line 198 answers with "id": None.
handle_jsonrpc(l, end) ==
    CASE end = "success" -> PxResult(l.id, l)
      [] end = "failure" -> PxError(l.id, PxErrorCode, l)
      [] OTHER               -> PxError(PxNullId, PxErrorCode, l)

\* Lines 124-133: the line is posted to the bridge and the body of the
\* response is written, if the request has an id.
PxForward ==
    /\ PxTake("forwarded")
    /\ LET l == Head(pxIn) IN
          /\ PxForwarded(l)
          /\ \E end \in BridgeOutcomes(l) : pxOut' = PxEmit(l, handle_jsonrpc(l, end))
    /\ pxPc' = "read"

\* Lines 134-144: requests.post times out after 120 seconds.
PxTimeout ==
    /\ PxTake("timeout")
    /\ LET l == Head(pxIn) IN
          /\ PxForwarded(l)
          /\ pxOut' = PxEmit(l, PxError(l.id, PxTimeoutCode, l))
    /\ pxPc' = "read"

\* What raises inside the try of line 112 for an object: a method that is not
\* a string (line 115 or 121), handle_initialize on a "params" that is not an
\* object when there is an id, or requests.post failing otherwise.
PxRaises(l) ==
    /\ l.kind = "object"
    /\ \/ l.method = "number"
       \/ l.method = "initialize" /\ l.params = "null" /\ l.id # PxNoId
       \/ PxForwarded(l)

\* Lines 145-158 for an object: the error handler parses the line again and
\* writes an error with code -32000, if the request has an id.
PxFail ==
    /\ PxTake("failed")
    /\ LET l == Head(pxIn) IN
          /\ PxRaises(l)
          /\ pxOut' = PxEmit(l, PxError(l.id, PxErrorCode, l))
    /\ pxPc' = PxAfterError

\* Lines 113-114 and 145-160 for a line that is no object: json.loads raises
\* on a blank line and on text, req.get raises on any other value; in the
\* handler json.loads raises again (blank, text), `"id" in req` is false
\* (list), or it raises or req["id"] raises (number, list with "id"), which
\* line 159 catches.  Nothing is written.
PxSkip ==
    /\ PxTake("skipped")
    /\ Head(pxIn).kind # "object"
    /\ pxOut' = pxOut
    /\ pxPc' = PxAfterError

\* Lines 108-111: readline returns the empty string at end of input.
PxEOF ==
    /\ pxPc = "read"
    /\ pxIn = <<>>
    /\ pxPc' = "done"
    /\ pxHow' = "eof"
    /\ UNCHANGED <<pxIn, pxSeen, pxOut, pxOthers>>

NextProxy ==
    \/ PxLocal
    \/ PxNotification
    \/ PxForward
    \/ PxTimeout
    \/ PxFail
    \/ PxSkip
    \/ PxEOF

\* The inputs of the proxy: up to MaxPxLines lines of any kind.
PxInputs == UNION {[1..n -> PxLines] : n \in 0..MaxPxLines}

\* The proxy at its start; the other components are not used.
InitProxy ==
    /\ msg = [c \in Callers |-> NoMsg]
    /\ InitServerAdapter
    /\ name = "other"
    /\ InitAb
    /\ InitBr
    /\ InitCl
    /\ \E input \in PxInputs : InitPx(input)

SpecProxy == InitProxy /\ [][NextProxy]_vars

\* The requests the proxy owes a line: objects with an id whose method is no
\* notification.
PxAnswerable(l) == l.kind = "object" /\ l.id # PxNoId /\ l.method \notin PxNotifications

\* An iteration of the loop on an answerable request appends exactly one line,
\* written for that request: a result when answered locally, an error with
\* code -32001 after a timeout and with code -32000 after any other failure;
\* an iteration on an object without id or on a notification writes nothing.
C35_Step ==
    (pxIn # <<>> /\ pxSeen' # pxSeen) =>
        LET l == Head(pxIn)
            last == pxOut'[Len(pxOut')]
        IN  /\ pxSeen' = Append(pxSeen, l)
            /\ pxIn' = Tail(pxIn)
            /\ PxAnswerable(l) =>
                  /\ Len(pxOut') = Len(pxOut) + 1
                  /\ SubSeq(pxOut', 1, Len(pxOut)) = pxOut
                  /\ last.of = l.id
                  /\ pxHow' \in {"local", "forwarded", "timeout", "failed"}
                  /\ pxHow' = "local" => last.kind = "result"
                  /\ pxHow' = "timeout" => last.kind = "error" /\ last.code = PxTimeoutCode
                  /\ pxHow' = "failed" => last.kind = "error" /\ last.code = PxErrorCode
            /\ (l.kind = "object" /\ ~PxAnswerable(l)) => pxOut' = pxOut

\* C35: for an input line that is an object with an id and a method that is
\* no notification the proxy writes exactly one line before it reads the next
\* line, however the request ends; for a line without id and for a
\* notification it writes nothing.
C35_OneLinePerRequest == [][C35_Step]_vars

\* A notification with an id was ignored and the request after it timed out:
\* the only line written is that request's error -32001.
C35_Witness ==
    /\ Len(pxSeen) = 2
    /\ pxSeen[1].method \in PxNotifications /\ pxSeen[1].id # PxNoId
    /\ PxAnswerable(pxSeen[2])
    /\ pxHow = "timeout"
    /\ Len(pxOut) = 1 /\ pxOut[1].code = PxTimeoutCode

\* C36: every line the proxy writes for a request carries the id of that
\* request, also when handle_jsonrpc raises or its call to the uAgent times
\* out.
C36_SameId == \A k \in 1..Len(pxOut) : pxOut[k].id = pxOut[k].of

\* An iteration on a line that is no object leaves the loop running and
\* writes nothing.
C37_Step ==
    (pxIn # <<>> /\ pxSeen' # pxSeen /\ Head(pxIn).kind # "object") =>
        /\ pxPc' = "read"
        /\ pxOut' = pxOut

\* The loop has ended only if no input is left, and the lines written so far
\* are, in order, one for each answerable request read so far.
C37_Answered ==
    /\ pxPc = "done" => pxIn = <<>>
    /\ LET owed == SelectSeq(pxSeen, PxAnswerable)
       IN  /\ Len(pxOut) = Len(owed)
           /\ \A k \in 1..Len(owed) : pxOut[k].of = owed[k].id

ClUuid(i) == <<"uuid", i>>

\* The address of the target agent, as the list of its parts between dots:
\* an agent address holds no dot.
target_address == << <<"agent1qtarget", 0>> >>

\* sender.split(".")[-1], line 79.
ClSenderId(sender) == sender[Len(sender)]

\* call_tool up to the await of wait_for (lines 102-126) when the send
\* succeeds: the future is registered under a fresh id and MCPRequest, which
\* has no field for the id, reaches the target agent.
ClCallTool(i) ==
    /\ clPc[i] = "new"
    /\ \A j \in ClCalls : j < i => clPc[j] # "new"
    /\ clFuture' = [clFuture EXCEPT ![i] = NewFuture]
    /\ clRequestFutures' = clRequestFutures \cup {ClUuid(i)}
    /\ clSent' = clSent \cup {i}
    /\ clPc' = [clPc EXCEPT ![i] = "wait"]
    /\ UNCHANGED <<clInbox, clRet, clWarned, clOthers>>

\* call_tool when the send of line 118 raises: the exception leaves call_tool
\* before the try of line 125, the future stays registered.
ClCallToolSendFails(i) ==
    /\ clPc[i] = "new"
    /\ \A j \in ClCalls : j < i => clPc[j] # "new"
    /\ clFuture' = [clFuture EXCEPT ![i] = NewFuture]
    /\ clRequestFutures' = clRequestFutures \cup {ClUuid(i)}
    /\ clPc' = [clPc EXCEPT ![i] = "raised"]
    /\ UNCHANGED <<clSent, clInbox, clRet, clWarned, clOthers>>

\* The target agent answers request i with an MCPResponse, successful or not
\* (mcp_uagent_adapter.py lines 127-137); its sender is the target's address.
ClTargetReply(i) ==
    /\ i \in clSent
    /\ clSent' = clSent \ {i}
    /\ \E ok \in BOOLEAN :
          clInbox' = clInbox \cup {[sender |-> target_address, of |-> i, success |-> ok]}
    /\ UNCHANGED <<clRequestFutures, clFuture, clPc, clRet, clWarned, clOthers>>

\* The MCPResponse messages the target agent can send.
ClResponses == [sender : {target_address}, of : ClCalls, success : BOOLEAN]

\* handle_mcp_response (lines 74-86): the request id is taken from the
\* sender; if a future is registered under it, it is popped and completed.
ClHandleResponse(m) ==
    /\ m \in clInbox
    /\ clInbox' = clInbox \ {m}
    /\ LET request_id == ClSenderId(m.sender) IN
          IF request_id \in clRequestFutures
          THEN /\ clRequestFutures' = clRequestFutures \ {request_id}
               /\ clFuture' = [i \in ClCalls |->
                                 IF ClUuid(i) = request_id /\ clFuture[i].st = "pending"
                                 THEN [st |-> "done", val |-> m] ELSE clFuture[i]]
               /\ UNCHANGED clWarned
          ELSE /\ clWarned' = clWarned \cup {request_id}
               /\ UNCHANGED <<clRequestFutures, clFuture>>
    /\ UNCHANGED <<clPc, clSent, clRet, clOthers>>

\* wait_for ends (lines 126-143): with the response, whose result is returned
\* if it reports success and which raises otherwise, or, the future still
\* pending, with the timeout of 30 seconds, which cancels the future and
\* raises; the finally clause removes the id if it is still registered.
ClWake(i) ==
    /\ clPc[i] = "wait"
    /\ IF clFuture[i].st = "done"
       THEN /\ IF clFuture[i].val.success
               THEN /\ clRet' = [clRet EXCEPT ![i] = [kind |-> "result", of |-> clFuture[i].val.of]]
                    /\ clPc' = [clPc EXCEPT ![i] = "returned"]
               ELSE /\ clPc' = [clPc EXCEPT ![i] = "raised"]
                    /\ UNCHANGED clRet
            /\ UNCHANGED clFuture
       ELSE /\ clFuture' = [clFuture EXCEPT ![i].st = "cancelled"]
            /\ clPc' = [clPc EXCEPT ![i] = "raised"]
            /\ UNCHANGED clRet
    /\ clRequestFutures' = clRequestFutures \ {ClUuid(i)}
    /\ UNCHANGED <<clSent, clInbox, clWarned, clOthers>>

NextClient ==
    \/ \E i \in ClCalls : ClCallTool(i)
    \/ \E i \in ClCalls : ClCallToolSendFails(i)
    \/ \E i \in ClCalls : ClTargetReply(i)
    \/ \E m \in ClResponses : ClHandleResponse(m)
    \/ \E i \in ClCalls : ClWake(i)

\* MCPUAgentClient after __init__; the other components are not used.
InitClient ==
    /\ msg = [c \in Callers |-> NoMsg]
    /\ InitAdapter
    /\ name = "other"

SpecClient == InitClient /\ [][NextClient]_vars

\* A step that takes in a successful response of the target agent to a call
\* that is still waiting completes the future of that call.
C38_Step ==
    \A m \in clInbox \ clInbox' :
        (m.success /\ m.sender = target_address /\ clPc[m.of] = "wait"
            /\ clFuture[m.of].st = "pending")
        => clFuture'[m.of].st = "done" /\ clFuture'[m.of].val.of = m.of

\* C38: when the target agent answers a call_tool request with a successful
\* MCPResponse before the timeout, handle_mcp_response completes the future
\* registered for that request.
C38_ResponseCompletes == [][C38_Step]_vars

====
